---------------------------- MODULE Spec2Model ----------------------------
(***************************************************************************)
(* Model of mcp-nextflow.py: the Makefile target registry                  *)
(* (get_makefile_targets), the process-wide NEXTFLOW_DIR, and the tools    *)
(* that validate a target, spawn an external process and render a report.  *)
(*                                                                         *)
(* Text is a sequence of one-character strings, so that the regular        *)
(* expression scan, str.split, str.strip and sorted are computed and not   *)
(* assumed.  A path is a sequence of components.  A report (a Python       *)
(* f-string) is the sequence of its parts: literal text, interpolated      *)
(* strings and interpolated integers.                                      *)
(***************************************************************************)
EXTENDS Integers, Sequences, FiniteSets, TLC

VARIABLES
    NEXTFLOW_DIR,        \* the global of line 23
    makefile,            \* the file "Makefile" of each existing directory
    op,                  \* the tool the dispatcher called last
    pc,                  \* where that call stands: "spawn", "compile", "launch", "done"
    arg,                 \* the call's argument (command, path, ...)
    content,             \* get_makefile_targets: what f.read() returned
    dir_read,            \* get_makefile_targets: the NEXTFLOW_DIR it read (line 34)
    available_targets,   \* the caller's local available_targets
    cmd,                 \* the argument vector of the pending subprocess.run
    spawned,             \* the subprocess.run calls of this call, in order, each with its outcome
    process,             \* the last subprocess.run's outcome
    result,              \* the returned report
    raised,              \* TRUE when the call ended in an exception instead
    other_result         \* the report of a set_nextflow_directory call made meanwhile

vars == <<NEXTFLOW_DIR, makefile, op, pc, arg, content, dir_read,
          available_targets, cmd, spawned, process, result, raised, other_result>>

----------------------------------------------------------------------------
(* Bounds *)

\* Longest Makefile typed character by character in SpecRegistry.
MaxLen == 5

\* Exit statuses range over 0..MaxExit.
MaxExit == 1

----------------------------------------------------------------------------
(* Characters and strings *)

Range(s) == {s[i] : i \in 1..Len(s)}

Digits == {"0", "1", "2", "3", "4", "5", "6", "7", "8", "9"}

Lower == {"a", "b", "c", "d", "e", "f", "g", "h", "i", "j", "k", "l", "m",
          "n", "o", "p", "q", "r", "s", "t", "u", "v", "w", "x", "y", "z"}

Upper == {"A", "B", "C", "D", "E", "F", "G", "H", "I", "J", "K", "L", "M",
          "N", "O", "P", "Q", "R", "S", "T", "U", "V", "W", "X", "Y", "Z"}

\* The class [a-zA-Z0-9_-] of target_pattern.
NameChars == Lower \cup Upper \cup Digits \cup {"_", "-"}

\* The class \s, as far as it can occur in a file read in text mode.
SpaceChars == {" ", "\t", "\n", "\f"}

\* The characters of a target name in code point order, as sorted() compares.
CodeOrder ==
    <<"-", "0", "1", "2", "3", "4", "5", "6", "7", "8", "9",
      "A", "B", "C", "D", "E", "F", "G", "H", "I", "J", "K", "L", "M",
      "N", "O", "P", "Q", "R", "S", "T", "U", "V", "W", "X", "Y", "Z", "_",
      "a", "b", "c", "d", "e", "f", "g", "h", "i", "j", "k", "l", "m",
      "n", "o", "p", "q", "r", "s", "t", "u", "v", "w", "x", "y", "z">>

Ord(c) == CHOOSE i \in 1..Len(CodeOrder) : CodeOrder[i] = c

RECURSIVE StrLess(_, _)
StrLess(x, y) ==
    IF y = <<>> THEN FALSE
    ELSE IF x = <<>> THEN TRUE
    ELSE IF Head(x) = Head(y) THEN StrLess(Tail(x), Tail(y))
    ELSE Ord(Head(x)) < Ord(Head(y))

RECURSIVE InsertSorted(_, _)
InsertSorted(x, list) ==
    IF list = <<>> THEN <<x>>
    ELSE IF StrLess(x, Head(list)) THEN <<x>> \o list
    ELSE <<Head(list)>> \o InsertSorted(x, Tail(list))

\* sorted(targets): every element kept, duplicates included.
RECURSIVE sorted(_)
sorted(list) ==
    IF list = <<>> THEN <<>>
    ELSE InsertSorted(list[Len(list)], sorted(SubSeq(list, 1, Len(list) - 1)))

----------------------------------------------------------------------------
\* target_pattern under re.MULTILINE: line start, one or more name characters
\* (the group), a colon, any whitespace, an optional comment, line end.

\* Faulty variant: the pattern without its line-start anchor.
AtLineStartAnywhere(s, i) == TRUE

\* The line-start anchor matches at the start of the text and after every newline.
AtLineStart(s, i) == i = 1 \/ s[i - 1] = "\n"

\* The line-end anchor matches at the end of the text and before every newline.
AtLineEnd(s, i) == i = Len(s) + 1 \/ s[i] = "\n"

\* The first position from i on that holds no character of the class.
RECURSIVE SkipClass(_, _, _)
SkipClass(s, i, class) ==
    IF i <= Len(s) /\ s[i] \in class THEN SkipClass(s, i + 1, class) ELSE i

\* The comment body (any characters) stops at the next newline.
RECURSIVE SkipLine(_, _)
SkipLine(s, i) ==
    IF i <= Len(s) /\ s[i] # "\n" THEN SkipLine(s, i + 1) ELSE i

\* The optional comment and the line end tried at w: the end of the match, or 0.
CommentTail(s, w) ==
    IF w <= Len(s) /\ s[w] = "#" THEN SkipLine(s, w)
    ELSE IF AtLineEnd(s, w) THEN w
    ELSE 0

\* The whitespace run is greedy and gives characters back one at a time, from w down to k.
RECURSIVE SpaceTail(_, _, _)
SpaceTail(s, k, w) ==
    IF CommentTail(s, w) # 0 THEN CommentTail(s, w)
    ELSE IF w = k THEN 0
    ELSE SpaceTail(s, k, w - 1)

\* The pattern tried at position i: the end of the match, or 0.
MatchAt(s, i) ==
    LET e == SkipClass(s, i, NameChars)
    IN  IF AtLineStart(s, i) /\ e > i /\ e <= Len(s) /\ s[e] = ":"
        THEN SpaceTail(s, e + 1, SkipClass(s, e + 1, SpaceChars))
        ELSE 0

\* re.findall: leftmost matches, each search resuming where the last ended.
RECURSIVE findall(_, _)
findall(s, pos) ==
    IF pos > Len(s) THEN <<>>
    ELSE IF MatchAt(s, pos) # 0
         THEN <<SubSeq(s, pos, SkipClass(s, pos, NameChars) - 1)>>
              \o findall(s, MatchAt(s, pos))
         ELSE findall(s, pos + 1)

----------------------------------------------------------------------------
(* str.split and str.strip *)

\* str.split(): the maximal runs of non-whitespace characters.
RECURSIVE split(_)
split(s) ==
    IF s = <<>> THEN <<>>
    ELSE IF Head(s) \in SpaceChars THEN split(Tail(s))
    ELSE LET e == CHOOSE j \in 1..Len(s) + 1 :
                      /\ \A i \in 1..j - 1 : s[i] \notin SpaceChars
                      /\ (j = Len(s) + 1 \/ s[j] \in SpaceChars)
         IN  <<SubSeq(s, 1, e - 1)>> \o split(SubSeq(s, e, Len(s)))

\* str.strip(): leading and trailing whitespace removed.
RECURSIVE strip(_)
strip(s) ==
    IF s = <<>> THEN <<>>
    ELSE IF Head(s) \in SpaceChars THEN strip(Tail(s))
    ELSE IF s[Len(s)] \in SpaceChars THEN strip(SubSeq(s, 1, Len(s) - 1))
    ELSE s

----------------------------------------------------------------------------
(* Reports: the parts of an f-string *)

T(text) == [k |-> "text", v |-> text]     \* literal text
S(chars) == [k |-> "str", v |-> chars]    \* an interpolated string
P(path) == [k |-> "path", v |-> path]     \* an interpolated path
I(n) == [k |-> "int", v |-> n]            \* an interpolated integer

\* One element of an argument vector that is a literal.
Lit(text) == <<T(text)>>

\* "\n".join(f"- {target}" for target in list)
RECURSIVE BulletList(_)
BulletList(list) ==
    IF list = <<>> THEN <<>>
    ELSE IF Len(list) = 1 THEN <<T("- "), S(list[1])>>
    ELSE <<T("- "), S(list[1]), T("\n")>> \o BulletList(Tail(list))

----------------------------------------------------------------------------
(* Paths and the file system *)

Home == <<"home", "dev">>

\* os.path.expanduser: a leading "~" component becomes the home directory.
expanduser(path) ==
    IF path # <<>> /\ path[1] = "~" THEN Home \o Tail(path) ELSE path

\* os.path.join(dir, name)
join(dir, name) == Append(dir, name)

\* Line 23 without the environment variable: expanduser("~/nextflow").
DefaultDir == expanduser(<<"~", "nextflow">>)

\* A second checkout, and a path where nothing exists.
OtherDir == <<"srv", "nf">>
MissingDir == <<"srv", "gone">>

\* The directories that exist, and the files other than Makefile in them.
ExistingDirs == {DefaultDir, OtherDir}
HasLaunch == {DefaultDir}
HasGradle == {DefaultDir}

\* The names the tools look for.
compile == <<"c", "o", "m", "p", "i", "l", "e">>
build == <<"b", "u", "i", "l", "d">>
test == <<"t", "e", "s", "t">>
lint == <<"l", "i", "n", "t">>

\* Makefiles an editor may leave in a directory.
MkFull ==
    compile \o <<":", "\n", "\t", "g", "\n">>
    \o build \o <<":", " ", "\n">>
    \o test \o <<":", " ", "#", " ", "r", "u", "n", "\n">>
MkBuild == build \o <<":", "\n">> \o test \o <<":", "\n">>
MkLint ==
    lint \o <<":", "\n">> \o <<"a", "l", "l", ":", " ">> \o lint
    \o <<"\n">> \o lint \o <<":", " ", "#", "x", "\n">>
MkNone == <<" ", " ">> \o test \o <<":", "\n", "a", "l", "l", ":", " ">> \o test

File(text) == [st |-> "file", content |-> text]
Absent == [st |-> "absent", content |-> <<>>]
Unreadable == [st |-> "unreadable", content |-> <<>>]

MakeStates ==
    {File(MkFull), File(MkBuild), File(MkLint), File(MkNone), Absent, Unreadable}

\* Faulty variant: the existence check left out.
isdirAlways(path) == TRUE

isdir(path) == path \in ExistingDirs

isfile(path) ==
    \E d \in ExistingDirs :
        \/ path = join(d, "Makefile") /\ makefile[d].st # "absent"
        \/ path = join(d, "launch.sh") /\ d \in HasLaunch
        \/ path = join(d, "build.gradle") /\ d \in HasGradle

\* The exceptions a file read or a process launch raises, all subclasses of
\* Exception, and what "except Exception" catches.
LaunchErrors == {"FileNotFoundError", "PermissionError"}

\* Faulty variant: a handler that lets the exception through.
CatchesNothing(exc) == FALSE

Catches(exc) == exc \in LaunchErrors \cup {"UnicodeDecodeError", "OSError"}

----------------------------------------------------------------------------
(* get_makefile_targets *)

\* Faulty variant: the Makefile of the default directory, not of NEXTFLOW_DIR.
makefile_path_default == join(DefaultDir, "Makefile")

makefile_path == join(NEXTFLOW_DIR, "Makefile")

\* The file at makefile_path, once os.path.isfile has said it is one.
MakefileAt(path) ==
    makefile[CHOOSE d \in ExistingDirs : join(d, "Makefile") = path]

\* open() raises on a file that cannot be read.
open_raises ==
    isfile(makefile_path) /\ MakefileAt(makefile_path).st = "unreadable"

\* content = f.read(), when the read happens.
read_content ==
    IF isfile(makefile_path) /\ ~open_raises
    THEN MakefileAt(makefile_path).content
    ELSE <<>>

\* The list get_makefile_targets returns.
get_makefile_targets ==
    IF ~isfile(makefile_path) THEN <<>>
    ELSE IF open_raises THEN <<>>
    ELSE findall(read_content, 1)

\* Whether the call leaves get_makefile_targets by an exception.
get_makefile_targets_raises == open_raises /\ ~Catches("PermissionError")

\* Faulty variant: the membership check left out.
InTargetsAlways(name, targets) == TRUE

\* "x in available_targets"
InTargets(name, targets) == \E i \in 1..Len(targets) : targets[i] = name

----------------------------------------------------------------------------
(* subprocess.run *)

NoProcess ==
    [st |-> "none", exc |-> "", returncode |-> 0, stdout |-> <<>>, stderr |-> <<>>]

\* What a process may have written: captured text is opaque to the tools.
Outs == {<<" ", "o", "\n">>}
Errs == {<<"e">>}

Exited ==
    {[st |-> "exited", exc |-> "", returncode |-> rc, stdout |-> o, stderr |-> e] :
        rc \in 0..MaxExit, o \in Outs, e \in Errs}

Failed ==
    {[st |-> "failed", exc |-> x, returncode |-> 0, stdout |-> <<>>, stderr |-> <<>>] :
        x \in LaunchErrors}

\* What subprocess.run(argv, cwd=cwd) can come back with: a completed process,
\* or an exception when the program or the directory cannot be used.
subprocess_run(cwd) ==
    IF cwd \in ExistingDirs THEN Exited \cup Failed
    ELSE {p \in Failed : p.exc = "FileNotFoundError"}

\* One subprocess.run call: what was run, where, and how it came back.
Spawn(argv, p) == [argv |-> argv, cwd |-> NEXTFLOW_DIR, outcome |-> p]

----------------------------------------------------------------------------
(* How a call ends *)

Return(report) == pc' = "done" /\ result' = report /\ raised' = FALSE

Raise == pc' = "done" /\ result' = <<>> /\ raised' = TRUE

Continue(at) == pc' = at /\ result' = <<>> /\ raised' = FALSE

\* The except clause of a tool: the exception becomes a report if caught.
Except(exc, report) == IF Catches(exc) THEN Return(report) ELSE Raise

Discover ==
    /\ dir_read' = NEXTFLOW_DIR
    /\ content' = read_content
    /\ available_targets' =
           IF get_makefile_targets_raises THEN <<>> ELSE get_makefile_targets

NoDiscover == dir_read' = <<>> /\ content' = <<>> /\ available_targets' = <<>>

Begin(tool, a) ==
    pc = "done" /\ op' = tool /\ arg' = a /\ other_result' = other_result

NoSpawn == cmd' = <<>> /\ spawned' = <<>> /\ process' = NoProcess

\* The three ways a subprocess.run inside try/except ends a tool.
Finish(p, on_exception, on_failure, on_success) ==
    IF p.st = "failed" THEN Except(p.exc, on_exception)
    ELSE IF p.returncode # 0 THEN Return(on_failure)
    ELSE Return(on_success)

\* "exit code {returncode}:\nStdout: {stdout}\nStderr: {stderr}"
ExitParts(p) ==
    <<I(p.returncode), T(":\nStdout: "), S(p.stdout), T("\nStderr: "), S(p.stderr)>>

----------------------------------------------------------------------------
(* The tools *)

list_make_targets ==
    /\ Begin("list", <<>>)
    /\ Discover
    /\ NoSpawn
    /\ IF get_makefile_targets_raises THEN Raise
       ELSE IF get_makefile_targets = <<>>
       THEN Return(<<T("Could not find any make targets in "), P(NEXTFLOW_DIR),
                     T("/Makefile. Please check if the Nextflow directory is set correctly.")>>)
       ELSE Return(<<T("Available make targets:\n")>>
                   \o BulletList(sorted(get_makefile_targets)))
    /\ UNCHANGED <<NEXTFLOW_DIR, makefile>>

set_nextflow_directory(path) ==
    LET expanded_path == expanduser(path)
    IN  /\ Begin("set", path)
        /\ NoDiscover
        /\ NoSpawn
        /\ IF ~isdir(expanded_path)
           THEN /\ Return(<<T("Error: Directory '"), P(expanded_path),
                            T("' does not exist.")>>)
                /\ UNCHANGED NEXTFLOW_DIR
           ELSE IF ~(\/ isfile(join(expanded_path, "Makefile"))
                     \/ isfile(join(expanded_path, "build.gradle")))
           THEN /\ NEXTFLOW_DIR' = expanded_path
                /\ Return(<<T("Warning: '"), P(expanded_path),
                            T("' might not be a Nextflow repository. Setting anyway.")>>)
           ELSE /\ NEXTFLOW_DIR' = expanded_path
                /\ Return(<<T("Nextflow directory set to: "), P(expanded_path)>>)
        /\ UNCHANGED makefile

get_nextflow_directory ==
    /\ Begin("get", <<>>)
    /\ NoDiscover
    /\ NoSpawn
    /\ Return(<<T("Current Nextflow directory: "), P(NEXTFLOW_DIR)>>)
    /\ UNCHANGED <<NEXTFLOW_DIR, makefile>>

\* run_make_command up to the subprocess.run: discovery and validation.
run_make_command(command) ==
    /\ Begin("make", command)
    /\ Discover
    /\ spawned' = <<>>
    /\ process' = NoProcess
    /\ IF get_makefile_targets_raises THEN cmd' = <<>> /\ Raise
       ELSE IF get_makefile_targets = <<>>
       THEN /\ cmd' = <<>>
            /\ Return(<<T("Could not read Makefile targets from "), P(NEXTFLOW_DIR),
                        T("/Makefile. Please check if the Nextflow directory is set correctly.")>>)
       ELSE IF ~InTargets(command, get_makefile_targets)
       THEN /\ cmd' = <<>>
            /\ Return(<<T("Error: '"), S(command),
                        T("' is not a valid make target. Available targets are:\n")>>
                      \o BulletList(sorted(get_makefile_targets)))
       ELSE /\ cmd' = <<Lit("make"), <<S(command)>>>>
            /\ Continue("spawn")
    /\ UNCHANGED <<NEXTFLOW_DIR, makefile>>

\* run_make_command from the subprocess.run on.
run_make_command_run ==
    /\ op = "make"
    /\ pc = "spawn"
    /\ \E p \in subprocess_run(NEXTFLOW_DIR) :
        /\ spawned' = Append(spawned, Spawn(cmd, p))
        /\ process' = p
        /\ Finish(p,
                  <<T("Exception running make "), S(arg), T(": "), T(p.exc)>>,
                  <<T("Command 'make "), S(arg), T("' failed with exit code ")>>
                      \o ExitParts(p),
                  <<T("Command 'make "), S(arg), T("' succeeded:\n"), S(p.stdout)>>)
    /\ UNCHANGED <<NEXTFLOW_DIR, makefile, op, arg, content, dir_read,
                   available_targets, cmd, other_result>>

run_specific_test(test_path) ==
    LET argv == <<Lit("./gradlew"), Lit("test"), Lit("--tests"), <<S(test_path)>>>>
    IN  /\ Begin("test", test_path)
        /\ NoDiscover
        /\ cmd' = argv
        /\ \E p \in subprocess_run(NEXTFLOW_DIR) :
            /\ spawned' = <<Spawn(argv, p)>>
            /\ process' = p
            /\ Finish(p,
                      <<T("Exception running test "), S(test_path), T(": "), T(p.exc)>>,
                      <<T("Test failed with exit code ")>> \o ExitParts(p),
                      <<T("Test completed successfully:\n"), S(p.stdout)>>)
        /\ UNCHANGED <<NEXTFLOW_DIR, makefile>>

\* Faulty variant: build preferred over compile.
build_target_build_first(targets) ==
    IF InTargets(build, targets) THEN build
    ELSE IF InTargets(compile, targets) THEN compile
    ELSE <<>>

\* build_target: "compile", else "build", else none (the empty name).
build_target(targets) ==
    IF InTargets(compile, targets) THEN compile
    ELSE IF InTargets(build, targets) THEN build
    ELSE <<>>

\* build_nextflow up to the subprocess.run: discovery and target selection.
build_nextflow ==
    /\ Begin("build", <<>>)
    /\ Discover
    /\ spawned' = <<>>
    /\ process' = NoProcess
    /\ IF get_makefile_targets_raises THEN cmd' = <<>> /\ Raise
       ELSE IF build_target(get_makefile_targets) = <<>>
       THEN /\ cmd' = <<>>
            /\ Return(<<T("Error: Neither 'compile' nor 'build' targets found in Makefile. Available targets are:\n")>>
                      \o BulletList(sorted(get_makefile_targets)))
       ELSE /\ cmd' = <<Lit("make"), <<S(build_target(get_makefile_targets))>>>>
            /\ Continue("spawn")
    /\ UNCHANGED <<NEXTFLOW_DIR, makefile>>

\* build_nextflow from the subprocess.run on.
build_nextflow_run ==
    /\ op = "build"
    /\ pc = "spawn"
    /\ \E p \in subprocess_run(NEXTFLOW_DIR) :
        /\ spawned' = Append(spawned, Spawn(cmd, p))
        /\ process' = p
        /\ Finish(p,
                  <<T("Exception during build: "), T(p.exc)>>,
                  <<T("Build failed with exit code ")>> \o ExitParts(p),
                  <<T("Build succeeded:\n"), S(p.stdout)>>)
    /\ UNCHANGED <<NEXTFLOW_DIR, makefile, op, arg, content, dir_read,
                   available_targets, cmd, other_result>>

run_integration_tests ==
    LET argv == <<Lit("make"), Lit("test")>>
    IN  /\ Begin("itest", <<>>)
        /\ NoDiscover
        /\ cmd' = argv
        /\ \E p \in subprocess_run(NEXTFLOW_DIR) :
            /\ spawned' = <<Spawn(argv, p)>>
            /\ process' = p
            /\ Finish(p,
                      <<T("Exception running integration tests: "), T(p.exc)>>,
                      <<T("Integration tests failed with exit code ")>> \o ExitParts(p),
                      <<T("Integration tests completed:\n"), S(p.stdout)>>)
        /\ UNCHANGED <<NEXTFLOW_DIR, makefile>>

get_nextflow_version ==
    LET argv == <<Lit("./nextflow"), Lit("-version")>>
    IN  /\ Begin("version", <<>>)
        /\ NoDiscover
        /\ cmd' = argv
        /\ \E p \in subprocess_run(NEXTFLOW_DIR) :
            /\ spawned' = <<Spawn(argv, p)>>
            /\ process' = p
            /\ Finish(p,
                      <<T("Exception getting Nextflow version: "), T(p.exc)>>,
                      <<T("Error getting version. Exit code "), I(p.returncode),
                        T(": "), S(p.stderr)>>,
                      <<S(strip(p.stdout))>>)
        /\ UNCHANGED <<NEXTFLOW_DIR, makefile>>

\* cmd = ["./launch.sh"] extended by command.split()
launch_argv(command) ==
    <<Lit("./launch.sh")>>
    \o [i \in 1..Len(split(command)) |-> <<S(split(command)[i])>>]

\* Faulty variant: the exit status of make compile ignored.
compile_failed_never(p) == FALSE

\* "if process.returncode != 0" after make compile.
compile_failed(p) == p.returncode # 0

\* run_development_nextflow up to the first subprocess.run: the launch.sh
\* check, then discovery.
run_development_nextflow(command) ==
    LET launch_script == join(NEXTFLOW_DIR, "launch.sh")
    IN  /\ Begin("dev", command)
        /\ spawned' = <<>>
        /\ process' = NoProcess
        /\ IF ~isfile(launch_script)
           THEN /\ NoDiscover
                /\ cmd' = <<>>
                /\ Return(<<T("Error: launch.sh script not found at "), P(launch_script),
                            T(". Make sure the Nextflow directory is correct.")>>)
           ELSE /\ Discover
                /\ IF get_makefile_targets_raises THEN cmd' = <<>> /\ Raise
                   ELSE IF InTargets(compile, get_makefile_targets)
                   THEN cmd' = <<Lit("make"), Lit("compile")>> /\ Continue("compile")
                   ELSE cmd' = launch_argv(command) /\ Continue("launch")
        /\ UNCHANGED <<NEXTFLOW_DIR, makefile>>

\* run_development_nextflow: make compile.
run_development_nextflow_compile ==
    /\ op = "dev"
    /\ pc = "compile"
    /\ \E p \in subprocess_run(NEXTFLOW_DIR) :
        /\ spawned' = Append(spawned, Spawn(cmd, p))
        /\ process' = p
        /\ IF p.st = "failed"
           THEN /\ Except(p.exc, <<T("Exception during compilation: "), T(p.exc)>>)
                /\ UNCHANGED cmd
           ELSE IF compile_failed(p)
           THEN /\ Return(<<T("Failed to compile Nextflow before running:\nExit code: "),
                            I(p.returncode), T("\nStdout: "), S(p.stdout),
                            T("\nStderr: "), S(p.stderr)>>)
                /\ UNCHANGED cmd
           ELSE /\ cmd' = launch_argv(arg)
                /\ Continue("launch")
    /\ UNCHANGED <<NEXTFLOW_DIR, makefile, op, arg, content, dir_read,
                   available_targets, other_result>>

\* run_development_nextflow: ./launch.sh.
run_development_nextflow_launch ==
    /\ op = "dev"
    /\ pc = "launch"
    /\ \E p \in subprocess_run(NEXTFLOW_DIR) :
        /\ spawned' = Append(spawned, Spawn(cmd, p))
        /\ process' = p
        /\ Finish(p,
                  <<T("Exception during Nextflow execution: "), T(p.exc)>>,
                  <<T("Development Nextflow execution failed with exit code ")>>
                      \o ExitParts(p),
                  <<T("Development Nextflow execution succeeded:\n"), S(p.stdout)>>)
    /\ UNCHANGED <<NEXTFLOW_DIR, makefile, op, arg, content, dir_read,
                   available_targets, cmd, other_result>>

run_plugin_test(module, class_name) ==
    LET argv == <<Lit("make"), Lit("test"), <<T("module="), S(module)>>>>
                \o (IF class_name # <<>>
                    THEN <<<<T("class="), S(class_name)>>>>
                    ELSE <<>>)
    IN  /\ Begin("plugin", <<module, class_name>>)
        /\ NoDiscover
        /\ cmd' = argv
        /\ \E p \in subprocess_run(NEXTFLOW_DIR) :
            /\ spawned' = <<Spawn(argv, p)>>
            /\ process' = p
            /\ Finish(p,
                      <<T("Exception during plugin test: "), T(p.exc)>>,
                      <<T("Plugin test failed with exit code ")>> \o ExitParts(p),
                      <<T("Plugin test completed successfully:\n"), S(p.stdout)>>)
        /\ UNCHANGED <<NEXTFLOW_DIR, makefile>>

\* set_nextflow_directory called by the dispatcher while a run_make_command or
\* build_nextflow call stands between its discovery and its subprocess.run:
\* nothing guards the global, so the assignment takes effect at once.
set_nextflow_directory_during(path) ==
    LET expanded_path == expanduser(path)
    IN  /\ pc = "spawn"
        /\ IF ~isdir(expanded_path)
           THEN /\ other_result' = <<T("Error: Directory '"), P(expanded_path),
                                     T("' does not exist.")>>
                /\ UNCHANGED NEXTFLOW_DIR
           ELSE IF ~(\/ isfile(join(expanded_path, "Makefile"))
                     \/ isfile(join(expanded_path, "build.gradle")))
           THEN /\ NEXTFLOW_DIR' = expanded_path
                /\ other_result' =
                       <<T("Warning: '"), P(expanded_path),
                         T("' might not be a Nextflow repository. Setting anyway.")>>
           ELSE /\ NEXTFLOW_DIR' = expanded_path
                /\ other_result' = <<T("Nextflow directory set to: "), P(expanded_path)>>
        /\ UNCHANGED <<makefile, op, pc, arg, content, dir_read, available_targets,
                       cmd, spawned, process, result, raised>>

----------------------------------------------------------------------------
(* The world outside: the Makefile is edited at any time *)

EditMakefile(d, m) ==
    /\ makefile[d] # m
    /\ makefile' = [makefile EXCEPT ![d] = m]
    /\ UNCHANGED <<NEXTFLOW_DIR, op, pc, arg, content, dir_read, available_targets,
                   cmd, spawned, process, result, raised, other_result>>

\* One more character typed at the end of the Makefile of NEXTFLOW_DIR.
TypeChar(c) ==
    /\ NEXTFLOW_DIR \in ExistingDirs
    /\ makefile[NEXTFLOW_DIR].st = "file"
    /\ Len(makefile[NEXTFLOW_DIR].content) < MaxLen
    /\ makefile' = [makefile EXCEPT
                       ![NEXTFLOW_DIR] = File(Append(@.content, c))]
    /\ UNCHANGED <<NEXTFLOW_DIR, op, pc, arg, content, dir_read, available_targets,
                   cmd, spawned, process, result, raised, other_result>>

----------------------------------------------------------------------------
(* Inputs *)

Commands == {compile, build, test, lint}
SetPaths == {<<"~", "nextflow">>, OtherDir, MissingDir, <<"~", "gone">>,
             join(OtherDir, "Makefile")}
DevCommands == {<<>>, <<"-", "v">>, <<"r", " ", "x">>}
TestPaths == {<<"T">>}
Modules == {<<"m">>}
Classes == {<<>>, <<"C">>}
Alphabet == {"a", ":", " ", "#", "\n"}

----------------------------------------------------------------------------
(* Specifications *)

Idle ==
    /\ op = "none"
    /\ pc = "done"
    /\ arg = <<>>
    /\ content = <<>>
    /\ dir_read = <<>>
    /\ available_targets = <<>>
    /\ cmd = <<>>
    /\ spawned = <<>>
    /\ process = NoProcess
    /\ result = <<>>
    /\ raised = FALSE
    /\ other_result = <<>>

\* The server starts with NEXTFLOW_DIR from the environment or the default.
Init ==
    /\ NEXTFLOW_DIR \in {DefaultDir, MissingDir}
    /\ makefile = [d \in ExistingDirs |-> File(MkFull)]
    /\ Idle

Next ==
    \/ list_make_targets
    \/ \E path \in SetPaths : set_nextflow_directory(path)
    \/ get_nextflow_directory
    \/ \E command \in Commands : run_make_command(command)
    \/ run_make_command_run
    \/ \E test_path \in TestPaths : run_specific_test(test_path)
    \/ build_nextflow
    \/ build_nextflow_run
    \/ run_integration_tests
    \/ get_nextflow_version
    \/ \E command \in DevCommands : run_development_nextflow(command)
    \/ run_development_nextflow_compile
    \/ run_development_nextflow_launch
    \/ \E module \in Modules, class_name \in Classes :
           run_plugin_test(module, class_name)
    \/ \E d \in ExistingDirs, m \in MakeStates : EditMakefile(d, m)

Spec == Init /\ [][Next]_vars

\* The registry alone: a Makefile typed character by character and listed.
InitRegistry ==
    /\ NEXTFLOW_DIR = DefaultDir
    /\ makefile = [d \in ExistingDirs |-> File(<<>>)]
    /\ Idle

NextRegistry ==
    \/ \E c \in Alphabet : TypeChar(c)
    \/ list_make_targets

SpecRegistry == InitRegistry /\ [][NextRegistry]_vars

\* The dispatcher invoking set_nextflow_directory concurrently with
\* run_make_command and build_nextflow.
NextConcurrent ==
    \/ \E command \in Commands : run_make_command(command)
    \/ run_make_command_run
    \/ build_nextflow
    \/ build_nextflow_run
    \/ \E path \in SetPaths : set_nextflow_directory(path)
    \/ \E path \in SetPaths : set_nextflow_directory_during(path)
    \/ \E d \in ExistingDirs, m \in MakeStates : EditMakefile(d, m)

SpecConcurrent == Init /\ [][NextConcurrent]_vars

----------------------------------------------------------------------------
(* What the properties speak of *)

\* A step in which the dispatcher calls the tool: the only steps from "done"
\* that leave the Makefiles alone.
IsCall(tool) == pc = "done" /\ makefile' = makefile /\ op' = tool

\* The lines of a text: from each line start to the next newline or the end.
LineStop(text, i) ==
    CHOOSE j \in i..Len(text) + 1 :
        /\ j = Len(text) + 1 \/ text[j] = "\n"
        /\ \A k \in i..j - 1 : text[k] # "\n"

Lines(text) ==
    {SubSeq(text, i, LineStop(text, i) - 1) :
        i \in {n \in 1..Len(text) + 1 : n = 1 \/ text[n - 1] = "\n"}}

\* The line is k name characters from column 0, a colon, blanks, and then
\* nothing or a comment.
LineDeclares(line, k) ==
    /\ k >= 1
    /\ k + 1 <= Len(line)
    /\ \A i \in 1..k : line[i] \in NameChars
    /\ line[k + 1] = ":"
    /\ \E m \in k + 1..Len(line) :
        /\ \A i \in k + 2..m : line[i] \in {" ", "\t", "\f"}
        /\ (m = Len(line) \/ line[m + 1] = "#")

\* The same with nothing at all between the colon and the comment.
LineDeclaresStrictly(line, k) ==
    /\ k >= 1
    /\ k + 1 <= Len(line)
    /\ \A i \in 1..k : line[i] \in NameChars
    /\ line[k + 1] = ":"
    /\ (k + 1 = Len(line) \/ line[k + 2] = "#")

DeclaredNames(text) ==
    UNION {{SubSeq(line, 1, k) : k \in {n \in 1..Len(line) : LineDeclares(line, n)}} :
              line \in Lines(text)}

StrictlyDeclaredNames(text) ==
    UNION {{SubSeq(line, 1, k) : k \in {n \in 1..Len(line) : LineDeclaresStrictly(line, n)}} :
              line \in Lines(text)}

\* The targets declared in the Makefile of the Build Directory, as it is now.
DeclaredNow ==
    IF NEXTFLOW_DIR \in ExistingDirs /\ makefile[NEXTFLOW_DIR].st = "file"
    THEN DeclaredNames(makefile[NEXTFLOW_DIR].content)
    ELSE {}

\* The positions of a report's bullets, and the names they list.
Bullets(report) ==
    {i \in 1..Len(report) - 1 :
        /\ report[i].k = "text" /\ report[i].v = "- "
        /\ report[i + 1].k = "str"}

ListedNames(report) == {report[i + 1].v : i \in Bullets(report)}

StartsWith(report, text) ==
    report # <<>> /\ report[1].k = "text" /\ report[1].v = text

\* The report holds the string, unmodified, as one of its interpolations.
ContainsStr(report, chars) ==
    chars = <<>> \/ \E i \in 1..Len(report) : report[i].k = "str" /\ report[i].v = chars

ContainsInt(report, n) ==
    \E i \in 1..Len(report) : report[i].k = "int" /\ report[i].v = n

\* An argument vector made of these literals.
ArgvIs(argv, words) ==
    /\ Len(argv) = Len(words)
    /\ \A i \in 1..Len(words) :
        Len(argv[i]) = 1 /\ argv[i][1].k = "text" /\ argv[i][1].v = words[i]

\* The vector "make <name>" of run_make_command and build_nextflow.
ArgvIsMake(argv, name) ==
    /\ Len(argv) = 2
    /\ ArgvIs(<<argv[1]>>, <<"make">>)
    /\ Len(argv[2]) = 1 /\ argv[2][1].k = "str" /\ argv[2][1].v = name

Discovered == Range(available_targets)

----------------------------------------------------------------------------
(* Properties *)

\* C1: in run_make_command, a name that is not among the discovered targets
\* (the empty discovery included) spawns no process and leaves none pending;
\* a process is pending or spawned only for a name that passed the check, and
\* it is "make <that name>".
C1_ValidateBeforeSpawn ==
    op = "make" =>
        /\ arg \notin Discovered => (pc = "done" /\ spawned = <<>> /\ cmd = <<>>)
        /\ (pc = "spawn" \/ spawned # <<>>) =>
               (arg \in Discovered /\ ArgvIsMake(cmd, arg))
        /\ \A i \in 1..Len(spawned) : ArgvIsMake(spawned[i].argv, arg)

\* C1 witness: a name outside a non-empty discovered set was rejected with the
\* enumeration of the valid targets and nothing was spawned.
C1_Witness ==
    /\ op = "make"
    /\ pc = "done"
    /\ available_targets # <<>>
    /\ arg \notin Discovered
    /\ spawned = <<>>
    /\ StartsWith(result, "Error: '")
    /\ ListedNames(result) = Discovered

\* C2: a set_nextflow_directory call whose path (after ~ expansion) is not an
\* existing directory returns the rejection message and leaves NEXTFLOW_DIR as
\* it was, whatever calls came before.
C2_RejectedSetKeepsDirectory ==
    [][(IsCall("set") /\ expanduser(arg') \notin ExistingDirs) =>
          /\ NEXTFLOW_DIR' = NEXTFLOW_DIR
          /\ StartsWith(result', "Error: Directory '")
          /\ raised' = FALSE]_vars

\* C2 witness: after an earlier successful set to the second checkout, a set
\* to a missing path was rejected and the directory is still that checkout.
C2_Witness ==
    /\ op = "set"
    /\ expanduser(arg) \notin ExistingDirs
    /\ NEXTFLOW_DIR = OtherDir
    /\ StartsWith(result, "Error: Directory '")

\* C3: build_nextflow runs "make compile" when compile is discovered, else
\* "make build" when build is discovered, else spawns nothing and returns the
\* error report that lists every discovered target.
C3_BuildTargetSelection ==
    op = "build" =>
        /\ compile \in Discovered =>
               /\ ArgvIsMake(cmd, compile)
               /\ pc = "spawn" \/ Len(spawned) = 1
        /\ (compile \notin Discovered /\ build \in Discovered) =>
               /\ ArgvIsMake(cmd, build)
               /\ pc = "spawn" \/ Len(spawned) = 1
        /\ (compile \notin Discovered /\ build \notin Discovered) =>
               /\ pc = "done"
               /\ spawned = <<>>
               /\ cmd = <<>>
               /\ StartsWith(result, "Error: Neither 'compile' nor 'build' targets found in Makefile. Available targets are:\n")
               /\ ListedNames(result) = Discovered
               /\ Cardinality(Bullets(result)) = Len(available_targets)
        /\ \A i \in 1..Len(spawned) : spawned[i].argv = cmd
        /\ pc = "spawn" => spawned = <<>>

\* C3 witness: only build was discovered and "make build" has been run.
C3_Witness ==
    /\ op = "build"
    /\ compile \notin Discovered
    /\ build \in Discovered
    /\ Len(spawned) = 1
    /\ ArgvIsMake(spawned[1].argv, build)

\* C4 (as amended): the names get_makefile_targets reports are exactly the
\* names some single line declares: the name from column 0, a colon, optional
\* blanks, then nothing or a comment.
C4_DiscoveryMatchesLines ==
    op = "list" => Discovered = DeclaredNames(content)

\* C4 witness: a line with a blank and a comment after the colon was read and
\* its name reported.
C4_Witness ==
    /\ op = "list"
    /\ content = <<"a", ":", " ", "#">>
    /\ available_targets = <<<<"a">>>>

\* C4 as stated: nothing but an optional comment may follow the colon.
C4_Original ==
    op = "list" => Discovered = StrictlyDeclaredNames(content)

\* C5: whenever discovery yields nothing, a tool that consulted the registry
\* spawns no process and ends with an error report.
C5_EmptyDiscoveryIsFatal ==
    (op \in {"list", "make", "build", "dev"} /\ available_targets = <<>>) =>
        /\ spawned = <<>>
        /\ pc = "done" =>
               \/ StartsWith(result, "Could not find any make targets in ")
               \/ StartsWith(result, "Could not read Makefile targets from ")
               \/ StartsWith(result, "Error: Neither 'compile' nor 'build' targets found in Makefile. Available targets are:\n")
               \/ StartsWith(result, "Error: launch.sh script not found at ")

\* C6: no call ends in an exception, and a call that has ended has returned a
\* report.
C6_AlwaysReturnsReport ==
    /\ raised = FALSE
    /\ (op # "none" /\ pc = "done") => result # <<>>

\* C6 witness: a launch of make failed with an exception and the call still
\* returned a report.
C6_Witness ==
    /\ op = "make"
    /\ pc = "done"
    /\ process.st = "failed"
    /\ StartsWith(result, "Exception running make ")
    /\ raised = FALSE

\* C7: after a process exited with a nonzero status, the report holds the exit
\* code, the captured standard output and the captured standard error.
C7_FailureReportComplete ==
    (pc = "done" /\ process.st = "exited" /\ process.returncode # 0) =>
        /\ ContainsInt(result, process.returncode)
        /\ ContainsStr(result, process.stdout)
        /\ ContainsStr(result, process.stderr)

\* C8: every name a discovery query reports, every name the call then lists,
\* and a name run_make_command accepts, is declared in the Makefile of the
\* Build Directory as both are when the call is made.
C8_FreshDiscovery ==
    [][(IsCall("list") \/ IsCall("make") \/ IsCall("build") \/ IsCall("dev")) =>
          /\ Range(available_targets') \subseteq DeclaredNow
          /\ ListedNames(result') \subseteq DeclaredNow
          /\ (op' = "make" /\ pc' = "spawn") => arg' \in DeclaredNow]_vars

\* C8 witness: after the directory was reassigned and its Makefile edited, a
\* listing shows the targets of the edited Makefile.
C8_Witness ==
    /\ op = "list"
    /\ NEXTFLOW_DIR = OtherDir
    /\ makefile[OtherDir] = File(MkLint)
    /\ makefile[DefaultDir] = File(MkFull)
    /\ content = MkLint
    /\ ListedNames(result) = {lint}

\* C9: no target name occurs twice in the discovered collection, in the
\* listing of list_make_targets or in the enumeration of a validation error.
C9_NoDuplicateTargets ==
    /\ \A i, j \in 1..Len(available_targets) :
           available_targets[i] = available_targets[j] => i = j
    /\ \A i, j \in Bullets(result) : result[i + 1].v = result[j + 1].v => i = j

\* C10: run_development_nextflow spawns nothing without launch.sh; with a
\* compile target it runs "make compile" first and ./launch.sh only after that
\* exited with status 0, and a failed compile ends the call with an error
\* report; without a compile target it runs ./launch.sh and never make.
C10_DevOrder ==
    op = "dev" =>
        /\ NEXTFLOW_DIR \notin HasLaunch => (pc = "done" /\ spawned = <<>>)
        /\ Len(spawned) <= 2
        /\ compile \in Discovered =>
               /\ pc = "compile" <=> spawned = <<>>
               /\ Len(spawned) >= 1 => ArgvIs(spawned[1].argv, <<"make", "compile">>)
               /\ (pc = "launch" \/ Len(spawned) = 2) =>
                      /\ spawned[1].outcome.st = "exited"
                      /\ spawned[1].outcome.returncode = 0
               /\ Len(spawned) = 2 => ArgvIs(<<spawned[2].argv[1]>>, <<"./launch.sh">>)
               /\ (/\ Len(spawned) >= 1
                   /\ \/ spawned[1].outcome.st = "failed"
                      \/ spawned[1].outcome.returncode # 0) =>
                      /\ pc = "done"
                      /\ Len(spawned) = 1
                      /\ \/ StartsWith(result, "Exception during compilation: ")
                         \/ StartsWith(result, "Failed to compile Nextflow before running:\nExit code: ")
        /\ (compile \notin Discovered /\ NEXTFLOW_DIR \in HasLaunch) =>
               /\ pc = "launch" <=> spawned = <<>>
               /\ Len(spawned) <= 1
               /\ \A i \in 1..Len(spawned) :
                      ArgvIs(<<spawned[i].argv[1]>>, <<"./launch.sh">>)

\* C10 witness: compile was discovered, "make compile" exited with 0 and
\* ./launch.sh was run after it.
C10_Witness ==
    /\ op = "dev"
    /\ pc = "done"
    /\ compile \in Discovered
    /\ Len(spawned) = 2
    /\ ArgvIs(spawned[1].argv, <<"make", "compile">>)
    /\ spawned[1].outcome.returncode = 0
    /\ ArgvIs(<<spawned[2].argv[1]>>, <<"./launch.sh">>)

\* C11: in run_make_command and build_nextflow, every process is spawned with
\* its working directory equal to the Build Directory that get_makefile_targets
\* read when the target was validated, also when set_nextflow_directory is
\* invoked concurrently.
C11_SpawnInValidatedDirectory ==
    op \in {"make", "build"} =>
        \A i \in 1..Len(spawned) : spawned[i].cwd = dir_read

=============================================================================
